---- MODULE Spec2Model ----
(***************************************************************************)
(* A model of pcl::visualization::ImageViewer                              *)
(* (visualization/include/pcl/visualization/image_viewer.h).               *)
(*                                                                         *)
(* The header holds the class layout, the inline members (wasStopped,      *)
(* resetStoppedFlag, the register*Callback wrappers), the two vtkCommand   *)
(* callbacks (ExitMainLoopTimerCallback, ExitCallback), the Layer record   *)
(* and LayerComparator.  The bodies of the out-of-line members (addLayer,  *)
(* removeLayer, the drawing helpers, spin, spinOnce, the emit functions)   *)
(* live in image_viewer.cpp / impl/image_viewer.hpp; they are modelled     *)
(* from the specification and from the declarations and doc comments of    *)
(* the header.                                                             *)
(*                                                                         *)
(* Opacities are doubles in the code; the model keeps them as integer      *)
(* percentages (0.5 is 50, 1.0 is 100).  Canvas pixels are not modelled:   *)
(* a canvas is the number of shapes drawn into it.                         *)
(***************************************************************************)
EXTENDS Integers, Sequences, FiniteSets, TLC

VARIABLES
  layer_map_,         \* std::vector<Layer>, in insertion order
  layers_to_remove_,  \* std::vector<int>: blend ports to drop at the next composite pass
  stopped_,           \* bool stopped_
  image_viewer_,      \* TRUE iff the vtkImageViewer smart pointer is non-null
  running,            \* TRUE iff the interactor's event loop is running (Start .. TerminateApp)
  pc,                 \* where the main thread is: "idle", "spin", "spinOnce"
  right_timer_id,     \* exit_main_loop_timer_callback_->right_timer_id
  mouse_signal_,      \* slots connected to mouse_signal_, in connection order
  keyboard_signal_,   \* slots connected to keyboard_signal_, in connection order
  app,                \* the caller's side: the registrations it made, in order, with the
                      \* connection each one returned and whether it disconnected it
  event,              \* the toolkit event handled by the step just taken (NoEvent for a call)
  invoked,            \* the handler invocations made by the step just taken, in order
  ret                 \* the value returned by the step just taken: "true", "false" or "void"

layerVars == <<layer_map_, layers_to_remove_>>
loopVars  == <<stopped_, image_viewer_, running, pc, right_timer_id>>
eventVars == <<mouse_signal_, keyboard_signal_, app>>
vars == <<layer_map_, layers_to_remove_, stopped_, image_viewer_, running, pc,
          right_timer_id, mouse_signal_, keyboard_signal_, app, event, invoked, ret>>

(***************************************************************************)
(* Bounds and program constants                                            *)
(***************************************************************************)
MaxShapes == 1          \* at most this many shapes are drawn into one canvas
MaxPending == 1         \* at most this many removals wait for a composite pass
MaxRegistrations == 2   \* at most this many callbacks are registered
MaxTimerId == 2         \* timer ids handed out by the toolkit are 1..MaxTimerId

DefaultOpacity == 50    \* "double opacity = 0.5" of addLayer, addCircle, addBox
ImageOpacity == 100     \* "double opacity = 1.0" of show*Image and markPoint

\* layer names a caller may pass: the default layers of addCircle, addBox and markPoint
LayerIds == {"circles", "boxes", "points"}
\* opacity arguments a caller may pass: one inside [0, 1] and one above 1.0
OpacityArgs == {DefaultOpacity, ImageOpacity + DefaultOpacity}

BoolStr(b) == IF b THEN "true" ELSE "false"

\* a step that is a call of the public interface handles no toolkit event
NoEvent == [cmd |-> "none", id |-> "none", timer |-> 0]
Call(r) == ret' = r /\ event' = NoEvent /\ invoked' = <<>>

(***************************************************************************)
(* Layers                                                                  *)
(***************************************************************************)
\* struct Layer: canvas, layer_name, opacity
Layer(name, opacity) == [layer_name |-> name, opacity |-> opacity, canvas |-> 0]

\* LayerComparator (str) (layer).  Faulty variants: one that matches no layer,
\* one with the test inverted, one that also matches the layer "circles".
LayerComparator_Never(layer, str) == FALSE
LayerComparator_Inverted(layer, str) == layer.layer_name # str
LayerComparator_Prefix(layer, str) == layer.layer_name = str \/ layer.layer_name = "circles"
LayerComparator(layer, str) == layer.layer_name = str

\* std::find_if (layer_map_.begin (), layer_map_.end (), LayerComparator (layer_id)):
\* the index of the first match, Len + 1 for end ()
FindLayer(map, layer_id) ==
  IF \E i \in 1..Len(map) : LayerComparator(map[i], layer_id)
  THEN CHOOSE i \in 1..Len(map) :
         /\ LayerComparator(map[i], layer_id)
         /\ \A j \in 1..(i - 1) : ~LayerComparator(map[j], layer_id)
  ELSE Len(map) + 1

\* private addLayer overload: push_back a new Layer, return the iterator to it
CreateLayer(map, layer_id, opacity) == Append(map, Layer(layer_id, opacity))

\* vector::erase (begin () + i - 1)
Erase(map, i) == [k \in 1..(Len(map) - 1) |-> IF k < i THEN map[k] ELSE map[k + 1]]

\* the layers the blender composites at the next pass, bottom first
BlendInputs(map) == [k \in 1..Len(map) |-> map[k].layer_name]

\* bool addLayer (layer_id, width, height, opacity)
addLayer(layer_id, opacity) ==
  /\ IF FindLayer(layer_map_, layer_id) <= Len(layer_map_)
     THEN /\ Call("false")
          /\ UNCHANGED layer_map_
     ELSE /\ layer_map_' = CreateLayer(layer_map_, layer_id, opacity)
          /\ Call("true")
  /\ UNCHANGED <<layers_to_remove_, loopVars, eventVars>>

\* void removeLayer (layer_id)
removeLayer(layer_id) ==
  /\ LET i == FindLayer(layer_map_, layer_id) IN
       IF i > Len(layer_map_)
       THEN UNCHANGED <<layer_map_, layers_to_remove_>>
       ELSE /\ Len(layers_to_remove_) < MaxPending
            /\ layers_to_remove_' = Append(layers_to_remove_, i - 1)
            /\ layer_map_' = Erase(layer_map_, i)
  /\ Call("void")
  /\ UNCHANGED <<loopVars, eventVars>>

\* the common body of addCircle, addBox, markPoint and show*Image: find the
\* layer, create it when it is missing, draw into its canvas
DrawInto(layer_id, opacity) ==
  LET i == FindLayer(layer_map_, layer_id)
      map == IF i > Len(layer_map_) THEN CreateLayer(layer_map_, layer_id, opacity)
             ELSE layer_map_
  IN /\ map[i].canvas < MaxShapes
     /\ layer_map_' = [map EXCEPT ![i].canvas = @ + 1]

\* bool addCircle (x, y, radius, [r, g, b,] layer_id = "circles", opacity = 0.5)
addCircle(layer_id, opacity) ==
  /\ DrawInto(layer_id, opacity)
  /\ Call("true")
  /\ UNCHANGED <<layers_to_remove_, loopVars, eventVars>>

\* bool addBox (x_min, x_max, y_min, y_max, [r, g, b,] layer_id = "boxes", opacity = 0.5)
addBox(layer_id, opacity) ==
  /\ DrawInto(layer_id, opacity)
  /\ Call("true")
  /\ UNCHANGED <<layers_to_remove_, loopVars, eventVars>>

\* void markPoint (u, v, fg_color, bg_color, radius, layer_id = "points", opacity = 1.0)
markPoint(layer_id, opacity) ==
  /\ DrawInto(layer_id, opacity)
  /\ Call("void")
  /\ UNCHANGED <<layers_to_remove_, loopVars, eventVars>>

\* addCircle (x, y, radius): layer_id = "circles", opacity = 0.5.  Faulty
\* variant: one whose default layer is that of addBox.
addCircle_DefaultBoxes == addCircle("boxes", DefaultOpacity)
addCircle_Default == addCircle("circles", DefaultOpacity)

\* addBox (x_min, x_max, y_min, y_max): layer_id = "boxes", opacity = 0.5
addBox_Default == addBox("boxes", DefaultOpacity)

\* markPoint (u, v, fg_color): layer_id = "points", opacity = 1.0
markPoint_Default == markPoint("points", ImageOpacity)

\* void showMonoImage / showRGBImage / showFloatImage / showShortImage /
\* showAngleImage / showHalfAngleImage (data, width, height, layer_id = "image", opacity = 1.0)
showImage(layer_id, opacity) ==
  /\ DrawInto(layer_id, opacity)
  /\ Call("void")
  /\ UNCHANGED <<layers_to_remove_, loopVars, eventVars>>

\* the composite pass run when the window is rendered: the blender is rebuilt
\* from layer_map_ and the pending removals are consumed
render ==
  /\ layers_to_remove_ # <<>>
  /\ layers_to_remove_' = <<>>
  /\ Call("void")
  /\ UNCHANGED <<layer_map_, loopVars, eventVars>>

(***************************************************************************)
(* The stopped flag and the interactor loop                                *)
(***************************************************************************)
\* vtkCommand event ids the toolkit passes to an observer
VtkEventIds == {"TimerEvent", "ExitEvent", "MouseMoveEvent", "KeyPressEvent"}
\* ids of the timers the toolkit runs
TimerIds == 1..MaxTimerId

Handles(cmd, id, timer) ==
  /\ event' = [cmd |-> cmd, id |-> id, timer |-> timer]
  /\ invoked' = <<>>
  /\ ret' = "void"

\* bool wasStopped () const.  Faulty variant: one that returns the flag
\* without looking at the widget.
wasStopped_Flag == stopped_
wasStopped_Value == IF image_viewer_ THEN stopped_ ELSE TRUE

wasStopped ==
  /\ Call(BoolStr(wasStopped_Value))
  /\ UNCHANGED <<layerVars, loopVars, eventVars>>

\* the flag after resetStoppedFlag ()
resetStoppedFlag_Value == IF image_viewer_ THEN FALSE ELSE stopped_

\* void resetStoppedFlag ()
resetStoppedFlag ==
  /\ stopped_' = resetStoppedFlag_Value
  /\ Call("void")
  /\ UNCHANGED <<layerVars, image_viewer_, running, pc, right_timer_id, eventVars>>

\* ExitMainLoopTimerCallback::Execute (caller, event_id, call_data), call_data
\* pointing to the id of the timer that fired.  Faulty variants: one without
\* the timer id test, one that also sets the stopped flag.
ExitMainLoopTimerCallback_AnyTimer(event_id, timer_id) ==
  /\ running' = IF event_id # "TimerEvent" THEN running ELSE FALSE
  /\ Handles("ExitMainLoopTimerCallback", event_id, timer_id)
  /\ UNCHANGED <<layerVars, stopped_, image_viewer_, pc, right_timer_id, eventVars>>

ExitMainLoopTimerCallback_Stops(event_id, timer_id) ==
  /\ IF event_id # "TimerEvent" \/ timer_id # right_timer_id
     THEN UNCHANGED <<running, stopped_>>
     ELSE running' = FALSE /\ stopped_' = TRUE
  /\ Handles("ExitMainLoopTimerCallback", event_id, timer_id)
  /\ UNCHANGED <<layerVars, image_viewer_, pc, right_timer_id, eventVars>>

ExitMainLoopTimerCallback_Execute(event_id, timer_id) ==
  /\ running' = IF event_id # "TimerEvent" THEN running
                ELSE IF timer_id # right_timer_id THEN running
                ELSE FALSE
  /\ Handles("ExitMainLoopTimerCallback", event_id, timer_id)
  /\ UNCHANGED <<layerVars, stopped_, image_viewer_, pc, right_timer_id, eventVars>>

\* ExitCallback::Execute (caller, event_id, call_data).  Faulty variant: one
\* that terminates the loop without setting the stopped flag.
ExitCallback_NoFlag(event_id) ==
  /\ running' = IF event_id # "ExitEvent" THEN running ELSE FALSE
  /\ Handles("ExitCallback", event_id, 0)
  /\ UNCHANGED <<layerVars, stopped_, image_viewer_, pc, right_timer_id, eventVars>>

ExitCallback_Execute(event_id) ==
  /\ IF event_id # "ExitEvent"
     THEN UNCHANGED <<stopped_, running>>
     ELSE stopped_' = TRUE /\ running' = FALSE
  /\ Handles("ExitCallback", event_id, 0)
  /\ UNCHANGED <<layerVars, image_viewer_, pc, right_timer_id, eventVars>>

\* void spin (): composite, clear the stopped flag, run the interactor loop
\* until TerminateApp
spin ==
  /\ pc = "idle"
  /\ layers_to_remove_' = <<>>
  /\ stopped_' = resetStoppedFlag_Value
  /\ running' = TRUE
  /\ pc' = "spin"
  /\ Call("void")
  /\ UNCHANGED <<layer_map_, image_viewer_, right_timer_id, eventVars>>

\* void spinOnce (time, force_redraw): composite when asked to, clear the
\* stopped flag, create the repeating exit timer and run the interactor loop
\* until TerminateApp
spinOnce(timer_id, force_redraw) ==
  /\ pc = "idle"
  /\ layers_to_remove_' = IF force_redraw THEN <<>> ELSE layers_to_remove_
  /\ stopped_' = resetStoppedFlag_Value
  /\ right_timer_id' = timer_id
  /\ running' = TRUE
  /\ pc' = "spinOnce"
  /\ Call("void")
  /\ UNCHANGED <<layer_map_, image_viewer_, eventVars>>

\* spin and spinOnce return once the loop has been terminated
spinReturn ==
  /\ pc # "idle"
  /\ ~running
  /\ pc' = "idle"
  /\ Call("void")
  /\ UNCHANGED <<layerVars, stopped_, image_viewer_, running, right_timer_id, eventVars>>

(***************************************************************************)
(* Event forwarding                                                        *)
(***************************************************************************)
MouseEventIds == {"MouseMoveEvent", "LeftButtonPressEvent"}
KeyboardEventIds == {"KeyPressEvent", "KeyReleaseEvent"}
\* what a caller may register: free functions, member functions of an
\* instance, boost::function objects; the user data passed along
FreeFunctions == {"f"}
MemberFunctions == {"m"}
Instances == {"obj"}
FunctionObjects == {"fo"}
Cookies == {"NULL", "ctx"}

\* a callable as the caller names it: function, instance, user data
Callable(fn, instance, cookie) == [fn |-> fn, instance |-> instance, cookie |-> cookie]

\* boost::bind (callback, _1, cookie).  Faulty variant: one that binds NULL.
Bind_NullCookie(callback, cookie) == Callable(callback, "none", "NULL")
Bind(callback, cookie) == Callable(callback, "none", cookie)

\* boost::bind (callback, boost::ref (instance), _1, cookie)
BindMember(callback, instance, cookie) == Callable(callback, instance, cookie)

\* the connection signal.connect () returns: it names the slot just added
NewConnection == Len(app) + 1
\* signal.connect (cb): the slot goes to the back of the slot list
Connect(signal, target) == Append(signal, [slot |-> NewConnection, target |-> target])

\* connection.disconnect (): the slot the connection names leaves its signal
Disconnected(signal, conn) ==
  LET Keep(s) == s.slot # conn IN SelectSeq(signal, Keep)

\* signal (event): every connected slot is called with the event, in
\* connection order, before the call returns
Emit(signal, kind, event_id) ==
  [k \in 1..Len(signal) |->
     [slot |-> signal[k].slot, target |-> signal[k].target,
      kind |-> kind, id |-> event_id]]

\* the caller registers `asked` and keeps the connection that is returned
Registered(kind, asked, conn) ==
  /\ Len(app) < MaxRegistrations
  /\ app' = Append(app, [kind |-> kind, asked |-> asked, conn |-> conn, live |-> TRUE])
  /\ Call("void")
  /\ UNCHANGED <<layerVars, loopVars>>

\* connection registerKeyboardCallback (boost::function<void (const KeyboardEvent&)> cb).
\* Faulty variant: one that hands back an empty connection.
registerKeyboardCallback_Unreturned(cb, asked) ==
  /\ keyboard_signal_' = Connect(keyboard_signal_, cb)
  /\ UNCHANGED mouse_signal_
  /\ Registered("keyboard", asked, 0)

registerKeyboardCallback(cb, asked) ==
  /\ keyboard_signal_' = Connect(keyboard_signal_, cb)
  /\ UNCHANGED mouse_signal_
  /\ Registered("keyboard", asked, NewConnection)

\* connection registerKeyboardCallback (void (*callback) (const KeyboardEvent&, void*), void* cookie = NULL).
\* Faulty variant: one that drops the connection of the overload it calls.
registerKeyboardCallback_Detached(callback, cookie) ==
  registerKeyboardCallback_Unreturned(Bind(callback, cookie), Callable(callback, "none", cookie))

registerKeyboardCallback_Function(callback, cookie) ==
  registerKeyboardCallback(Bind(callback, cookie), Callable(callback, "none", cookie))

\* connection registerKeyboardCallback (void (T::*callback) (const KeyboardEvent&, void*), T& instance, void* cookie = NULL)
registerKeyboardCallback_Member(callback, instance, cookie) ==
  registerKeyboardCallback(BindMember(callback, instance, cookie),
                           Callable(callback, instance, cookie))

\* connection registerMouseCallback (boost::function<void (const MouseEvent&)> cb)
registerMouseCallback(cb, asked) ==
  /\ mouse_signal_' = Connect(mouse_signal_, cb)
  /\ UNCHANGED keyboard_signal_
  /\ Registered("mouse", asked, NewConnection)

\* connection registerMouseCallback (void (*callback) (const MouseEvent&, void*), void* cookie = NULL)
registerMouseCallback_Function(callback, cookie) ==
  registerMouseCallback(Bind(callback, cookie), Callable(callback, "none", cookie))

\* connection registerMouseCallback (void (T::*callback) (const MouseEvent&, void*), T& instance, void* cookie = NULL)
registerMouseCallback_Member(callback, instance, cookie) ==
  registerMouseCallback(BindMember(callback, instance, cookie),
                        Callable(callback, instance, cookie))

\* the caller disconnects the connection its k-th registration returned
disconnect(k) ==
  /\ k \in 1..Len(app)
  /\ app[k].live
  /\ app' = [app EXCEPT ![k].live = FALSE]
  /\ mouse_signal_' = Disconnected(mouse_signal_, app[k].conn)
  /\ keyboard_signal_' = Disconnected(keyboard_signal_, app[k].conn)
  /\ Call("void")
  /\ UNCHANGED <<layerVars, loopVars>>

\* void emitMouseEvent (event_id): build the MouseEvent, mouse_signal_ (event)
emitMouseEvent(event_id) == Emit(mouse_signal_, "mouse", event_id)

\* void emitKeyboardEvent (event_id): build the KeyboardEvent, keyboard_signal_ (event)
emitKeyboardEvent(event_id) == Emit(keyboard_signal_, "keyboard", event_id)

\* static void MouseCallback (vtkObject*, eid, clientdata, calldata)
MouseCallback(eid) ==
  /\ invoked' = emitMouseEvent(eid)
  /\ event' = [cmd |-> "MouseCallback", id |-> eid, timer |-> 0]
  /\ ret' = "void"
  /\ UNCHANGED <<layerVars, loopVars, eventVars>>

\* static void KeyboardCallback (vtkObject*, eid, clientdata, calldata)
KeyboardCallback(eid) ==
  /\ invoked' = emitKeyboardEvent(eid)
  /\ event' = [cmd |-> "KeyboardCallback", id |-> eid, timer |-> 0]
  /\ ret' = "void"
  /\ UNCHANGED <<layerVars, loopVars, eventVars>>

(***************************************************************************)
(* Claims about the layer registry (checked under SpecLayers)              *)
(***************************************************************************)
HasLayer(map, name) == \E i \in 1..Len(map) : map[i].layer_name = name

\* the layers of map other than those named name, in order
Others(map, name) ==
  LET Keep(l) == l.layer_name # name IN SelectSeq(map, Keep)

\* C1: in every reachable state no two entries of layer_map_ have the same
\* layer_name.
C1_UniqueLayerNames ==
  \A i, j \in 1..Len(layer_map_) :
    i # j => layer_map_[i].layer_name # layer_map_[j].layer_name

\* a second addLayer of a present name was refused while two layers exist
C1_Witness == Len(layer_map_) >= 2 /\ ret = "false"

\* C2: addLayer of an absent name appends exactly one layer with that name
\* and opacity and returns true; addLayer of a present name returns false and
\* leaves the registry unchanged.
C2_AddLayer ==
  [][\A id \in LayerIds, o \in OpacityArgs :
       addLayer(id, o) =>
         IF HasLayer(layer_map_, id)
         THEN ret' = "false" /\ layer_map_' = layer_map_
         ELSE /\ ret' = "true"
              /\ Len(layer_map_') = Len(layer_map_) + 1
              /\ \A k \in 1..Len(layer_map_) : layer_map_'[k] = layer_map_[k]
              /\ layer_map_'[Len(layer_map_')].layer_name = id
              /\ layer_map_'[Len(layer_map_')].opacity = o]_vars

\* addLayer was refused on a registry that holds a layer
C2_Witness == Len(layer_map_) = 1 /\ ret = "false"

C4_InsertionOrder ==
  [][\A i, j \in 1..Len(layer_map_) : \A k, l \in 1..Len(layer_map_') :
       /\ (/\ i < j
           /\ layer_map_'[k].layer_name = layer_map_[i].layer_name
           /\ layer_map_'[l].layer_name = layer_map_[j].layer_name
           /\ layer_map_[i].layer_name # layer_map_[j].layer_name) => k < l
       /\ (/\ layer_map_'[k].layer_name = layer_map_[i].layer_name
           /\ ~HasLayer(layer_map_, layer_map_'[l].layer_name)) => k < l]_vars

\* the middle one of three layers was removed and the other two remain
C4_Witness == Len(layer_map_) = 2 /\ layers_to_remove_ = <<1>>

\* C10: every layer of the registry has an opacity in [0, 1] whatever
\* opacity argument the calls were given (a new layer storing the opacity it
\* was created with, as C2 states for addLayer).
C10_OpacityInRange ==
  \A i \in 1..Len(layer_map_) :
    layer_map_[i].opacity >= 0 /\ layer_map_[i].opacity <= ImageOpacity

\* the entries of map named name
Named(map, name) == {k \in 1..Len(map) : map[k].layer_name = name}

DrawsOnlyInto(name) ==
  /\ \A k \in 1..Len(layer_map_) :
       layer_map_[k].layer_name # name =>
         k <= Len(layer_map_') /\ layer_map_'[k] = layer_map_[k]
  /\ \A k \in 1..Len(layer_map_') :
       layer_map_'[k].layer_name # name =>
         k <= Len(layer_map_) /\ layer_map_'[k] = layer_map_[k]
  /\ \E k \in 1..Len(layer_map_') :
       /\ layer_map_'[k].layer_name = name
       /\ layer_map_'[k].canvas =
            IF k <= Len(layer_map_) THEN layer_map_[k].canvas + 1 ELSE 1
       /\ k <= Len(layer_map_) =>
            /\ layer_map_[k].layer_name = name
            /\ layer_map_'[k].opacity = layer_map_[k].opacity
  /\ UNCHANGED layers_to_remove_

\* C12: a drawing operation draws into its target layer and keeps every other
\* layer's name, opacity and position; without a layer name addCircle targets
\* "circles", addBox "boxes" and markPoint "points".
C12_DrawTarget ==
  [][/\ \A id \in LayerIds :
          (\/ ret' = "true" /\ \E o \in OpacityArgs : addCircle(id, o) \/ addBox(id, o)
           \/ ret' = "void" /\ \E o \in OpacityArgs : markPoint(id, o) \/ showImage(id, o))
            => DrawsOnlyInto(id)
     /\ addCircle_Default => DrawsOnlyInto("circles")
     /\ addBox_Default => DrawsOnlyInto("boxes")
     /\ markPoint_Default => DrawsOnlyInto("points")]_vars

\* the three default layers exist, one of them created by markPoint's
\* defaults, and only some of them have been drawn into
C12_Witness ==
  /\ Len(layer_map_) = 3
  /\ \E k \in 1..3 : layer_map_[k] = [layer_name |-> "points", opacity |-> ImageOpacity, canvas |-> 1]
  /\ \E k \in 1..3 : layer_map_[k] = [layer_name |-> "circles", opacity |-> DefaultOpacity, canvas |-> 1]
  /\ \E k \in 1..3 : layer_map_[k].layer_name = "boxes" /\ layer_map_[k].canvas = 0

(***************************************************************************)
(* Claims about the stopped flag and the loop                              *)
(***************************************************************************)
\* a step that calls resetStoppedFlag, directly or from spin and spinOnce
CallsResetStoppedFlag ==
  \/ resetStoppedFlag
  \/ spin
  \/ \E t \in TimerIds, f \in BOOLEAN : spinOnce(t, f)

\* C5: once ExitCallback has received an ExitEvent, stopped_ is true, it stays
\* true until resetStoppedFlag is called, and every wasStopped call made
\* while it is true returns true.
C5_StoppedAfterExit ==
  [][/\ (event'.cmd = "ExitCallback" /\ event'.id = "ExitEvent") => stopped_'
     /\ (stopped_ /\ ~CallsResetStoppedFlag) => stopped_'
     /\ (wasStopped /\ stopped_) => ret' = "true"]_vars

\* wasStopped has returned true on a viewer whose window the user closed
C5_Witness == stopped_ /\ image_viewer_ /\ ret = "true" /\ ~running

\* C6: stopped_ goes from false to true only in a step in which ExitCallback
\* handles an ExitEvent, and that step terminates the loop.
C6_OnlyExitStops ==
  [][(~stopped_ /\ stopped_') =>
       /\ event' = [cmd |-> "ExitCallback", id |-> "ExitEvent", timer |-> 0]
       /\ ~running']_vars

\* the window was closed while the loop ran, with a layer and a handler registered
C6_Witness ==
  /\ stopped_ /\ event.cmd = "ExitCallback" /\ pc = "spin"
  /\ layer_map_ # <<>> /\ app # <<>>

\* C7: the exit-timer callback terminates the loop exactly when it is given a
\* TimerEvent whose timer id is right_timer_id, every other event leaves the
\* loop as it is, and a spinOnce that entered the loop returns.
C7_ExitTimer ==
  /\ [][event'.cmd = "ExitMainLoopTimerCallback" =>
          /\ running' = (running /\ ~(event'.id = "TimerEvent" /\ event'.timer = right_timer_id))
          /\ UNCHANGED <<stopped_, pc, right_timer_id>>]_vars
  /\ (pc = "spinOnce") ~> (pc = "idle")

\* the timer of a spinOnce fired and ended its loop
C7_Witness ==
  /\ event = [cmd |-> "ExitMainLoopTimerCallback", id |-> "TimerEvent", timer |-> right_timer_id]
  /\ pc = "spinOnce" /\ ~running /\ ~stopped_

\* C13: without the widget wasStopped returns true whatever stopped_ is and
\* resetStoppedFlag leaves stopped_ alone; with the widget resetStoppedFlag
\* clears stopped_, wasStopped then returns false, and stopped_ stays false
\* until ExitCallback handles an ExitEvent.
C13_WidgetGuard ==
  [][/\ (wasStopped /\ ~image_viewer_) => ret' = "true"
     /\ (resetStoppedFlag /\ ~image_viewer_) => stopped_' = stopped_
     /\ (resetStoppedFlag /\ image_viewer_) => ~stopped_'
     /\ (wasStopped /\ image_viewer_ /\ ~stopped_) => ret' = "false"
     /\ (~stopped_ /\ ~(event'.cmd = "ExitCallback" /\ event'.id = "ExitEvent"))
          => ~stopped_']_vars

\* wasStopped returned true on a viewer without widget whose flag is false
C13_Witness == ~image_viewer_ /\ ~stopped_ /\ ret = "true"

(***************************************************************************)
(* Claims about event forwarding (checked under SpecEvents)                *)
(***************************************************************************)
\* the registrations of a kind whose connection the caller has not disconnected
LiveRegistrations(kind) == {k \in 1..Len(app) : app[k].kind = kind /\ app[k].live}

\* the step just taken delivered event e of a kind to exactly the live
\* registrations of that kind, each called as the caller registered it
Published(kind, e) ==
  /\ Len(invoked') = Cardinality(LiveRegistrations(kind))
  /\ \A k \in LiveRegistrations(kind) :
       \E n \in 1..Len(invoked') :
         invoked'[n] = [slot |-> k, target |-> app[k].asked, kind |-> kind, id |-> e]
  /\ \A n \in 1..Len(invoked') :
       invoked'[n].slot \in 1..Len(app) /\ app[invoked'[n].slot].kind = kind
  /\ UNCHANGED <<layerVars, loopVars, eventVars>>

\* C8: a mouse event is published, within the toolkit callback, to every
\* handler registered with registerMouseCallback and to no keyboard handler,
\* a keyboard event likewise; with no handler the event has no effect.
C8_Publish ==
  [][/\ event'.cmd = "MouseCallback" => Published("mouse", event'.id)
     /\ event'.cmd = "KeyboardCallback" => Published("keyboard", event'.id)
     /\ event'.cmd \notin {"MouseCallback", "KeyboardCallback"} => invoked' = <<>>]_vars

\* a mouse event reached its one handler while a keyboard handler is registered
C8_Witness ==
  /\ event.cmd = "MouseCallback"
  /\ Len(invoked) = 1 /\ invoked[1].target.cookie = "ctx"
  /\ Len(keyboard_signal_) = 1

\* C9: after the caller disconnected the connection a registration returned,
\* the handler of that registration is invoked for no later event, and every
\* registration not disconnected still receives each event of its kind.
C9_Disconnect ==
  [][/\ \A n \in 1..Len(invoked') :
          invoked'[n].slot \in 1..Len(app) /\ app[invoked'[n].slot].live
     /\ \A k \in 1..Len(app) :
          (/\ app[k].live
           /\ \/ event'.cmd = "MouseCallback" /\ app[k].kind = "mouse"
              \/ event'.cmd = "KeyboardCallback" /\ app[k].kind = "keyboard")
          => \E n \in 1..Len(invoked') : invoked'[n].slot = k]_vars

\* a keyboard event reached the remaining handler after another was disconnected
C9_Witness ==
  /\ event.cmd = "KeyboardCallback"
  /\ Len(invoked) = 1
  /\ \E k \in 1..Len(app) : app[k].kind = "keyboard" /\ ~app[k].live

Init ==
  /\ layer_map_ = <<>>
  /\ layers_to_remove_ = <<>>
  /\ stopped_ = FALSE
  /\ image_viewer_ = TRUE
  /\ running = FALSE
  /\ pc = "idle"
  /\ right_timer_id = 0
  /\ mouse_signal_ = <<>>
  /\ keyboard_signal_ = <<>>
  /\ app = <<>>
  /\ event = NoEvent
  /\ invoked = <<>>
  /\ ret = "void"

NextLayers ==
  \/ \E id \in LayerIds, o \in OpacityArgs : addLayer(id, o)
  \/ \E id \in LayerIds : removeLayer(id)
  \/ \E id \in LayerIds, o \in OpacityArgs : addCircle(id, o)
  \/ \E id \in LayerIds, o \in OpacityArgs : addBox(id, o)
  \/ \E id \in LayerIds, o \in OpacityArgs : markPoint(id, o)
  \/ \E id \in LayerIds, o \in OpacityArgs : showImage(id, o)
  \/ addCircle_Default
  \/ addBox_Default
  \/ markPoint_Default
  \/ render

SpecLayers == Init /\ [][NextLayers]_vars
\* the viewer as constructed, with or without its widget
InitAnyWidget ==
  \E w \in BOOLEAN :
    /\ layer_map_ = <<>>
    /\ layers_to_remove_ = <<>>
    /\ stopped_ = FALSE
    /\ image_viewer_ = w
    /\ running = FALSE
    /\ pc = "idle"
    /\ right_timer_id = 0
    /\ mouse_signal_ = <<>>
    /\ keyboard_signal_ = <<>>
    /\ app = <<>>
    /\ event = NoEvent
    /\ invoked = <<>>
    /\ ret = "void"

NextLoop ==
  \/ wasStopped
  \/ resetStoppedFlag
  \/ spin
  \/ \E t \in TimerIds, f \in BOOLEAN : spinOnce(t, f)
  \/ spinReturn
  \/ \E e \in VtkEventIds, t \in TimerIds : ExitMainLoopTimerCallback_Execute(e, t)
  \/ \E e \in VtkEventIds : ExitCallback_Execute(e)

SpecLoop == InitAnyWidget /\ [][NextLoop]_vars
NextEvents ==
  \/ \E fo \in FunctionObjects :
       registerKeyboardCallback(Callable(fo, "none", "none"), Callable(fo, "none", "none"))
  \/ \E fn \in FreeFunctions, c \in Cookies : registerKeyboardCallback_Function(fn, c)
  \/ \E fn \in MemberFunctions, i \in Instances, c \in Cookies :
       registerKeyboardCallback_Member(fn, i, c)
  \/ \E fo \in FunctionObjects :
       registerMouseCallback(Callable(fo, "none", "none"), Callable(fo, "none", "none"))
  \/ \E fn \in FreeFunctions, c \in Cookies : registerMouseCallback_Function(fn, c)
  \/ \E fn \in MemberFunctions, i \in Instances, c \in Cookies :
       registerMouseCallback_Member(fn, i, c)
  \/ \E k \in 1..MaxRegistrations : disconnect(k)
  \/ \E e \in MouseEventIds : MouseCallback(e)
  \/ \E e \in KeyboardEventIds : KeyboardCallback(e)

SpecEvents == Init /\ [][NextEvents]_vars
SpecLoopFair ==
  /\ SpecLoop
  /\ WF_vars(ExitMainLoopTimerCallback_Execute("TimerEvent", right_timer_id))
  /\ WF_vars(spinReturn)

\* the whole viewer: every operation, on one layer name and one handler of each kind
Next ==
  \/ addLayer("circles", DefaultOpacity)
  \/ removeLayer("circles")
  \/ addCircle("circles", DefaultOpacity)
  \/ addBox("circles", DefaultOpacity)
  \/ markPoint("circles", DefaultOpacity)
  \/ showImage("circles", DefaultOpacity)
  \/ render
  \/ wasStopped
  \/ resetStoppedFlag
  \/ spin
  \/ \E t \in TimerIds, f \in BOOLEAN : spinOnce(t, f)
  \/ spinReturn
  \/ \E e \in VtkEventIds, t \in TimerIds : ExitMainLoopTimerCallback_Execute(e, t)
  \/ \E e \in VtkEventIds : ExitCallback_Execute(e)
  \/ registerKeyboardCallback_Function("f", "NULL")
  \/ registerMouseCallback_Function("f", "NULL")
  \/ \E k \in 1..MaxRegistrations : disconnect(k)
  \/ \E e \in MouseEventIds : MouseCallback(e)
  \/ \E e \in KeyboardEventIds : KeyboardCallback(e)

Spec == Init /\ [][Next]_vars
====
